---------------------------- MODULE Spec2Model ----------------------------
(***************************************************************************)
(* A model of the path prettifier of `line` (src/line.go): prettifyPath   *)
(* and its helper compressWithTruncator, run as a state machine with one  *)
(* action per statement group or loop iteration of prettifyPath.          *)
(*                                                                         *)
(* A Go string is modelled as the sequence of its runes; a rune is a       *)
(* TLA+ string naming it.  Go mixes two measures of a string, and the      *)
(* model keeps both: utf8.RuneCountInString(s) is Len(s), while len(s)     *)
(* and the index of `for i, ch := range s` count UTF-8 bytes (ByteLen,     *)
(* ByteOffset).                                                            *)
(***************************************************************************)
EXTENDS Integers, Sequences, FiniteSets

VARIABLES
    pc,            \* position in the function being run
    call,          \* 1: the first call, 2: the call on the first call's result
    arg,           \* the argument p as passed by the caller
    targetLength,  \* the argument targetLength
    HOME,          \* the environment's HOME value (<<>>: unset or empty)
    wd,            \* what os.Getwd returned inside filepath.Abs (<<>>: not asked)
    p,             \* the local p (reassigned at lines 176, 186, 308, 311)
    cleanP,        \* the value of p after line 176
    origP,         \* the local origP (line 190)
    neededGain,    \* the local neededGain
    segments,      \* the local segments
    i,             \* the loop counter of the pass being run (0-based, as in Go)
    longestI,      \* the local longestI of the last longest-first iteration
    atThree,       \* the value of segments when the three-character pass began
    collapsed,     \* whether the two-character pass has collapsed a segment
    argS,          \* compressWithTruncator called on its own: the argument s
    argMaxLen,     \* compressWithTruncator called on its own: the argument maxLen
    truncatedS,    \* compressWithTruncator called on its own: the result
    cwd,           \* gitPath: what os.Getwd returned
    cur,           \* gitPath: the local cur
    children,      \* gitPath: what each directory above the start holds
    gitDir         \* gitPath: the path returned

\* The parameters and locals of prettifyPath.
prettifyVars == <<call, arg, targetLength, HOME, wd, p, cleanP, origP,
                  neededGain, segments, i, longestI, atThree, collapsed>>

\* The parameters and the result of compressWithTruncator called on its own.
compressVars == <<argS, argMaxLen, truncatedS>>

\* The locals of gitPath, the file system it reads and its result.
gitVars == <<cwd, cur, children, gitDir>>

vars == <<pc, prettifyVars, compressVars, gitVars>>

---------------------------------------------------------------------------
(* Runes and strings *)

pathSeparator == "/"
homeTruncator == "~"
segmentTruncator == "U+2026"
EAcute == "U+00E9"

Dot == <<".">>
DotDot == <<".", ".">>

\* The number of bytes of a rune's UTF-8 encoding.
RuneLen(r) ==
    IF r = segmentTruncator THEN 3
    ELSE IF r = EAcute THEN 2
    ELSE 1

\* Go's len(s): the number of bytes of s.
RECURSIVE ByteLen(_)
ByteLen(s) == IF s = <<>> THEN 0 ELSE RuneLen(Head(s)) + ByteLen(Tail(s))

\* The index that `for i, ch := range s` gives the k-th rune of s (k from 1):
\* the byte offset at which the rune starts.
ByteOffset(s, k) == ByteLen(SubSeq(s, 1, k - 1))

\* Go's int(x) of the float64 x = n / 2: truncation toward zero.
IntOfHalf(n) == IF n >= 0 THEN n \div 2 ELSE -((-n) \div 2)

Last(s) == s[Len(s)]

\* strings.HasPrefix(s, prefix)
HasPrefix(s, prefix) ==
    /\ Len(prefix) <= Len(s)
    /\ SubSeq(s, 1, Len(prefix)) = prefix

\* strings.Split(s, "/")
RECURSIVE Split(_)
Split(s) ==
    IF \A k \in 1..Len(s) : s[k] # pathSeparator
    THEN <<s>>
    ELSE LET k == CHOOSE k \in 1..Len(s) :
                    /\ s[k] = pathSeparator
                    /\ \A m \in 1..(k - 1) : s[m] # pathSeparator
         IN  <<SubSeq(s, 1, k - 1)>> \o Split(SubSeq(s, k + 1, Len(s)))

\* strings.Join(elems, "/")
RECURSIVE StringsJoin(_)
StringsJoin(elems) ==
    IF elems = <<>> THEN <<>>
    ELSE IF Len(elems) = 1 THEN elems[1]
    ELSE elems[1] \o <<pathSeparator>> \o StringsJoin(Tail(elems))

\* The element loop of path.Clean / filepath.Clean: empty and "." elements are
\* dropped, ".." removes the element before it, is dropped at the root and is
\* kept at the front of a relative path.
RECURSIVE CleanElems(_, _, _)
CleanElems(elems, rooted, out) ==
    IF elems = <<>> THEN out
    ELSE LET e == Head(elems)
             rest == Tail(elems)
         IN  IF e = <<>> \/ e = Dot
             THEN CleanElems(rest, rooted, out)
             ELSE IF e = DotDot
             THEN IF out # <<>> /\ Last(out) # DotDot
                  THEN CleanElems(rest, rooted, SubSeq(out, 1, Len(out) - 1))
                  ELSE IF rooted
                  THEN CleanElems(rest, rooted, out)
                  ELSE CleanElems(rest, rooted, Append(out, e))
             ELSE CleanElems(rest, rooted, Append(out, e))

\* path.Clean and filepath.Clean (the same function where the separator is /).
Clean(path) ==
    IF path = <<>> THEN Dot
    ELSE LET rooted == path[1] = pathSeparator
             out == CleanElems(Split(path), rooted, <<>>)
         IN  IF rooted THEN <<pathSeparator>> \o StringsJoin(out)
             ELSE IF out = <<>> THEN Dot
             ELSE StringsJoin(out)

IsAbs(path) == path # <<>> /\ path[1] = pathSeparator

\* filepath.Abs(path) where the working directory is dir.
Abs(path, dir) ==
    IF IsAbs(path) THEN Clean(path)
    ELSE Clean(dir \o <<pathSeparator>> \o path)

\* path.Join(elems...): the elements from the first non-empty one on, joined
\* with the separator and cleaned; the empty string when all are empty.
Join(elems) ==
    IF \A k \in 1..Len(elems) : elems[k] = <<>> THEN <<>>
    ELSE LET f == CHOOSE k \in 1..Len(elems) :
                    /\ elems[k] # <<>>
                    /\ \A m \in 1..(k - 1) : elems[m] = <<>>
         IN  Clean(StringsJoin(SubSeq(elems, f, Len(elems))))

---------------------------------------------------------------------------
(* compressWithTruncator *)

\* A variant of compressWithTruncator that keeps the rune at endI.
compressKeepingEnd(s, truncator, maxLen) ==
    LET lenS == Len(s)
        reductionAmount == lenS - maxLen
        \* middle, startIExact and endIExact are halves of integers; the model
        \* keeps twice their value.
        twiceMiddle == lenS
        twiceStart == twiceMiddle - reductionAmount
        twiceEnd == twiceStart + 2 * reductionAmount
        startI0 == IntOfHalf(twiceStart)
        endI0 == IntOfHalf(twiceEnd)
        startI == IF startI0 < 0 THEN 0 ELSE startI0
        endI == IF endI0 >= lenS THEN lenS ELSE endI0
        \* the state of the range loop after its first k iterations
        loop[k \in 0..lenS] ==
            IF k = 0 THEN [truncatedS |-> <<>>, truncated |-> FALSE]
            ELSE LET prev == loop[k - 1]
                     idx == ByteOffset(s, k)
                     ch == s[k]
                 IN  IF idx < startI
                     THEN [prev EXCEPT !.truncatedS = Append(@, ch)]
                     ELSE IF ~prev.truncated
                     THEN [truncatedS |-> Append(prev.truncatedS, truncator),
                           truncated |-> TRUE]
                     ELSE IF idx >= endI
                     THEN [prev EXCEPT !.truncatedS = Append(@, ch)]
                     ELSE prev
    IN  IF lenS <= maxLen THEN s ELSE loop[lenS].truncatedS

compressWithTruncator(s, truncator, maxLen) ==
    LET lenS == Len(s)
        reductionAmount == lenS - maxLen
        \* middle, startIExact and endIExact are halves of integers; the model
        \* keeps twice their value.
        twiceMiddle == lenS
        twiceStart == twiceMiddle - reductionAmount
        twiceEnd == twiceStart + 2 * reductionAmount
        startI0 == IntOfHalf(twiceStart)
        endI0 == IntOfHalf(twiceEnd)
        startI == IF startI0 < 0 THEN 0 ELSE startI0
        endI == IF endI0 >= lenS THEN lenS ELSE endI0
        \* the state of the range loop after its first k iterations
        loop[k \in 0..lenS] ==
            IF k = 0 THEN [truncatedS |-> <<>>, truncated |-> FALSE]
            ELSE LET prev == loop[k - 1]
                     idx == ByteOffset(s, k)
                     ch == s[k]
                 IN  IF idx < startI
                     THEN [prev EXCEPT !.truncatedS = Append(@, ch)]
                     ELSE IF ~prev.truncated
                     THEN [truncatedS |-> Append(prev.truncatedS, truncator),
                           truncated |-> TRUE]
                     ELSE IF idx > endI
                     THEN [prev EXCEPT !.truncatedS = Append(@, ch)]
                     ELSE prev
    IN  IF lenS <= maxLen THEN s ELSE loop[lenS].truncatedS

---------------------------------------------------------------------------
(* The inputs the model draws from *)

MaxSegs == 3
MaxTarget == 10

\* The directory names the input paths are built from: lengths 2, 3, 4 and 6,
\* and one name with a two-byte rune.
SegPool ==
    { <<"b", "b">>,
      <<"c", "c", "c">>,
      <<"a", "b", "c", "d">>,
      <<"a", "b", "c", "d", "e", "f">>,
      <<EAcute, "a", "b", "c">> }

\* The clean absolute paths of at most MaxSegs names ("/" when there is none).
AbsPaths ==
    { <<pathSeparator>> \o StringsJoin(names) :
        names \in UNION { [1..n -> SegPool] : n \in 0..MaxSegs } }

\* Arguments that filepath.Clean and filepath.Abs change: a relative path, and
\* paths with ".", ".." and repeated separators.
DirtyPaths ==
    { <<"b", "b", "/", "c", "c", "c">>,
      <<"/", "a", "b", "c", "d", "/", ".", "/", "b", "b", "/", "/">>,
      <<"/", "a", "b", "c", "d", "/", ".", ".", "/", "c", "c", "c">> }

Paths == AbsPaths \cup DirtyPaths

\* HOME: unset, a directory, and the same directory with a trailing separator.
Homes ==
    { <<>>,
      <<"/", "a", "b", "c", "d">>,
      <<"/", "a", "b", "c", "d", "/">> }

\* The working directories os.Getwd may report.
Cwds ==
    { <<"/">>,
      <<"/", "a", "b", "c", "d">> }

---------------------------------------------------------------------------
(* prettifyPath *)

segmentsStartI == 0
\* A variant of segmentsEndI that lets the passes reach the base name.
segmentsEndIWithBase(segs) == Len(segs)
segmentsEndI(segs) == Len(segs) - 1

\* Line 186: the path with its HOME prefix replaced by the marker.
homeSubstitute(path, homePath) ==
    IF homePath # <<>> /\ HasPrefix(path, homePath)
    THEN <<homeTruncator>> \o SubSeq(path, Len(homePath) + 1, Len(path))
    ELSE path

\* A variant of initialGain that measures the path in bytes.
initialGainInBytes(path, target) == ByteLen(path) - target

\* Line 194.
initialGain(path, target) == Len(path) - target

\* The measure the search for the longest segment compares (line 220).
segmentSize(segment) == ByteLen(segment)

\* Lines 217-223: the 0-based index of the first segment of greatest size in
\* [startI, endI).
longestIndex(segs, startI, endI) ==
    CHOOSE j \in startI..(endI - 1) :
        /\ \A m \in startI..(endI - 1) :
                segmentSize(segs[m + 1]) <= segmentSize(segs[j + 1])
        /\ \A m \in startI..(j - 1) :
                segmentSize(segs[m + 1]) < segmentSize(segs[j + 1])

\* Line 262.
isThree(segment) == Len(segment) = 3

\* A variant of isCollapsible that does not look for the truncator.
isCollapsibleAnyTwo(segment) == Len(segment) = 2

\* Lines 287-289.
isCollapsible(segment) ==
    /\ Len(segment) = 2
    /\ Last(segment) = segmentTruncator

Init ==
    /\ pc = "start"
    /\ call = 1
    /\ arg \in Paths
    /\ targetLength \in 0..MaxTarget
    /\ HOME \in Homes
    /\ wd = <<>>
    /\ p = arg
    /\ cleanP = <<>>
    /\ origP = <<>>
    /\ neededGain = 0
    /\ segments = <<>>
    /\ i = 0
    /\ longestI = 0
    /\ atThree = <<>>
    /\ collapsed = FALSE
    /\ argS = <<>> /\ argMaxLen = 0 /\ truncatedS = <<>>
    /\ cwd = <<>> /\ cur = <<>> /\ children = <<>> /\ gitDir = <<>>

\* Line 176, the path is absolute once cleaned: os.Getwd is not called.
NormalizeAbs ==
    /\ pc = "start"
    /\ IsAbs(Clean(p))
    /\ p' = Abs(Clean(p), <<>>)
    /\ cleanP' = p'
    /\ pc' = "home"
    /\ UNCHANGED <<compressVars, gitVars>>
    /\ UNCHANGED <<call, arg, targetLength, HOME, wd, origP, neededGain,
                   segments, i, longestI, atThree, collapsed>>

\* Line 176, the path is relative: filepath.Abs joins it to the working
\* directory.
NormalizeRel ==
    /\ pc = "start"
    /\ ~IsAbs(Clean(p))
    /\ \E dir \in Cwds :
        /\ wd' = dir
        /\ p' = Abs(Clean(p), dir)
    /\ cleanP' = p'
    /\ pc' = "home"
    /\ UNCHANGED <<compressVars, gitVars>>
    /\ UNCHANGED <<call, arg, targetLength, HOME, origP, neededGain,
                   segments, i, longestI, atThree, collapsed>>

\* Lines 177-179: os.Getwd failed inside filepath.Abs.
NormalizeFail ==
    /\ pc = "start"
    /\ ~IsAbs(Clean(p))
    /\ p' = <<>>
    /\ pc' = "err"
    /\ UNCHANGED <<compressVars, gitVars>>
    /\ UNCHANGED <<call, arg, targetLength, HOME, wd, cleanP, origP, neededGain,
                   segments, i, longestI, atThree, collapsed>>

\* Lines 181-209: home substitution, the saved original, the needed gain and
\* the split into segments.
Prepare ==
    /\ pc = "home"
    /\ p' = homeSubstitute(p, HOME)
    /\ origP' = p'
    /\ neededGain' = initialGain(p', targetLength)
    /\ segments' = Split(p')
    /\ i' = segmentsStartI
    /\ pc' = "longest"
    /\ UNCHANGED <<compressVars, gitVars>>
    /\ UNCHANGED <<call, arg, targetLength, HOME, wd, cleanP, longestI,
                   atThree, collapsed>>

\* Lines 213-252: one iteration of the longest-first pass.
LongestStep ==
    /\ pc = "longest"
    /\ i < segmentsEndI(segments) /\ neededGain > 0
    /\ LET li == longestIndex(segments, segmentsStartI, segmentsEndI(segments))
           segment == segments[li + 1]
           lenSegment == Len(segment)
           maxGain == lenSegment - 3
           reductionAmount == IF neededGain > maxGain THEN maxGain ELSE neededGain
       IN  /\ longestI' = li
           /\ IF maxGain > 0
              THEN /\ segments' =
                        [segments EXCEPT ![li + 1] =
                            compressWithTruncator(segment, segmentTruncator,
                                                  lenSegment - reductionAmount)]
                   /\ neededGain' = neededGain - reductionAmount
              ELSE UNCHANGED <<segments, neededGain>>
    /\ i' = i + 1
    /\ UNCHANGED <<compressVars, gitVars>>
    /\ UNCHANGED <<pc, call, arg, targetLength, HOME, wd, p, cleanP, origP,
                   atThree, collapsed>>

\* Line 213: the loop condition fails; the three-character pass begins.
LongestExit ==
    /\ pc = "longest"
    /\ ~(i < segmentsEndI(segments) /\ neededGain > 0)
    /\ pc' = "three"
    /\ i' = segmentsStartI
    /\ atThree' = segments
    /\ UNCHANGED <<compressVars, gitVars>>
    /\ UNCHANGED <<call, arg, targetLength, HOME, wd, p, cleanP, origP,
                   neededGain, segments, longestI, collapsed>>

\* Lines 256-277: one iteration of the three-character pass.
ThreeStep ==
    /\ pc = "three"
    /\ i < segmentsEndI(segments) /\ neededGain > 0
    /\ LET segment == segments[i + 1]
       IN  IF isThree(segment)
           THEN /\ segments' =
                     [segments EXCEPT ![i + 1] = <<segment[1], segmentTruncator>>]
                /\ neededGain' = neededGain - 1
           ELSE UNCHANGED <<segments, neededGain>>
    /\ i' = i + 1
    /\ UNCHANGED <<compressVars, gitVars>>
    /\ UNCHANGED <<pc, call, arg, targetLength, HOME, wd, p, cleanP, origP,
                   longestI, atThree, collapsed>>

\* Line 256: the loop condition fails; the two-character pass begins.
ThreeExit ==
    /\ pc = "three"
    /\ ~(i < segmentsEndI(segments) /\ neededGain > 0)
    /\ pc' = "two"
    /\ i' = segmentsStartI
    /\ UNCHANGED <<compressVars, gitVars>>
    /\ UNCHANGED <<call, arg, targetLength, HOME, wd, p, cleanP, origP,
                   neededGain, segments, longestI, atThree, collapsed>>

\* Lines 281-299: one iteration of the two-character pass.
TwoStep ==
    /\ pc = "two"
    /\ i < segmentsEndI(segments) /\ neededGain > 0
    /\ LET segment == segments[i + 1]
       IN  IF isCollapsible(segment)
           THEN /\ segments' = [segments EXCEPT ![i + 1] = <<segment[1]>>]
                /\ neededGain' = neededGain - 1
                /\ collapsed' = TRUE
           ELSE UNCHANGED <<segments, neededGain, collapsed>>
    /\ i' = i + 1
    /\ UNCHANGED <<compressVars, gitVars>>
    /\ UNCHANGED <<pc, call, arg, targetLength, HOME, wd, p, cleanP, origP,
                   longestI, atThree>>

\* Line 281: the loop condition fails.
TwoExit ==
    /\ pc = "two"
    /\ ~(i < segmentsEndI(segments) /\ neededGain > 0)
    /\ pc' = "finish"
    /\ UNCHANGED <<compressVars, gitVars>>
    /\ UNCHANGED <<call, arg, targetLength, HOME, wd, p, cleanP, origP,
                   neededGain, segments, i, longestI, atThree, collapsed>>

\* A variant of fallbackPath that truncates the edited segments, rejoined.
fallbackFromSegments(orig, segs, target) ==
    compressWithTruncator(StringsJoin(segs), segmentTruncator, target)

\* Line 308: the value the global fallback returns.
fallbackPath(orig, segs, target) ==
    compressWithTruncator(orig, segmentTruncator, target)

\* Lines 304-308 and 314: still out of space, the original path is truncated.
Fallback ==
    /\ pc = "finish"
    /\ neededGain > 0
    /\ p' = fallbackPath(origP, segments, targetLength)
    /\ pc' = "done"
    /\ UNCHANGED <<compressVars, gitVars>>
    /\ UNCHANGED <<call, arg, targetLength, HOME, wd, cleanP, origP, neededGain,
                   segments, i, longestI, atThree, collapsed>>

\* Lines 309-314: the segments are put back together.
Rejoin ==
    /\ pc = "finish"
    /\ ~(neededGain > 0)
    /\ p' = Join(segments)
    /\ pc' = "done"
    /\ UNCHANGED <<compressVars, gitVars>>
    /\ UNCHANGED <<call, arg, targetLength, HOME, wd, cleanP, origP, neededGain,
                   segments, i, longestI, atThree, collapsed>>

\* The caller passes the first call's result to prettifyPath again, with the
\* same target length and the same HOME.
CallAgain ==
    /\ pc = "done"
    /\ call = 1
    /\ call' = 2
    /\ arg' = p
    /\ p' = p
    /\ pc' = "start"
    /\ wd' = <<>>
    /\ cleanP' = <<>>
    /\ origP' = <<>>
    /\ neededGain' = 0
    /\ segments' = <<>>
    /\ i' = 0
    /\ longestI' = 0
    /\ atThree' = <<>>
    /\ collapsed' = FALSE
    /\ UNCHANGED <<compressVars, gitVars>>
    /\ UNCHANGED <<targetLength, HOME>>

Next ==
    \/ NormalizeAbs
    \/ NormalizeRel
    \/ NormalizeFail
    \/ Prepare
    \/ LongestStep
    \/ LongestExit
    \/ ThreeStep
    \/ ThreeExit
    \/ TwoStep
    \/ TwoExit
    \/ Fallback
    \/ Rejoin
    \/ CallAgain

Spec == Init /\ [][Next]_vars

---------------------------------------------------------------------------
(* compressWithTruncator, called on its own *)

\* The strings compressWithTruncator is given: whole paths and single names.
CompressStrings == Paths \cup SegPool

InitCompress ==
    /\ pc = "compress"
    /\ argS \in CompressStrings
    /\ argMaxLen \in 0..MaxTarget
    /\ truncatedS = <<>>
    /\ call = 1 /\ arg = <<>> /\ targetLength = 0 /\ HOME = <<>> /\ wd = <<>>
    /\ p = <<>> /\ cleanP = <<>> /\ origP = <<>> /\ neededGain = 0
    /\ segments = <<>> /\ i = 0 /\ longestI = 0 /\ atThree = <<>>
    /\ collapsed = FALSE
    /\ cwd = <<>> /\ cur = <<>> /\ children = <<>> /\ gitDir = <<>>

\* Lines 126-170: the call and its return.
Compress ==
    /\ pc = "compress"
    /\ truncatedS' = compressWithTruncator(argS, segmentTruncator, argMaxLen)
    /\ pc' = "compressed"
    /\ UNCHANGED <<argS, argMaxLen, prettifyVars, gitVars>>

NextCompress == Compress

SpecCompress == InitCompress /\ [][NextCompress]_vars

---------------------------------------------------------------------------
(* gitPath *)

MaxDepth == 3

gitDirectoryName == <<".", "g", "i", "t">>

\* The directory k levels below the root, each level named "d".
DirAt(k) == <<pathSeparator>> \o StringsJoin([n \in 1..k |-> <<"d">>])

\* The directories of the file system: one chain from the root down.
Dirs == {DirAt(k) : k \in 0..MaxDepth}

\* What ioutil.ReadDir finds in a directory: no entry named .git, a directory
\* named .git, a file named .git, or an error.
Listings == {"none", "dir", "file", "unreadable"}

\* filepath.Dir: the path up to its last separator, cleaned.
Dir(path) ==
    LET seps == {k \in 1..Len(path) : path[k] = pathSeparator}
    IN  IF seps = {} THEN Dot
        ELSE Clean(SubSeq(path, 1, CHOOSE k \in seps : \A m \in seps : m <= k))

InitGit ==
    /\ pc = "getwd"
    /\ children \in [Dirs -> Listings]
    /\ cwd = <<>> /\ cur = <<>> /\ gitDir = <<>>
    /\ call = 1 /\ arg = <<>> /\ targetLength = 0 /\ HOME = <<>> /\ wd = <<>>
    /\ p = <<>> /\ cleanP = <<>> /\ origP = <<>> /\ neededGain = 0
    /\ segments = <<>> /\ i = 0 /\ longestI = 0 /\ atThree = <<>>
    /\ collapsed = FALSE
    /\ argS = <<>> /\ argMaxLen = 0 /\ truncatedS = <<>>

\* Lines 21-31: the current directory, cleaned and made absolute.
Getwd ==
    /\ pc = "getwd"
    /\ \E dir \in Dirs :
        /\ cwd' = dir
        /\ cur' = Abs(Clean(dir), dir)
    /\ pc' = "walk"
    /\ UNCHANGED <<children, gitDir, prettifyVars, compressVars>>

\* Lines 22-24: os.Getwd failed.
GetwdFail ==
    /\ pc = "getwd"
    /\ pc' = "failed"
    /\ UNCHANGED <<gitVars, prettifyVars, compressVars>>

\* Lines 37-40: the directory cannot be listed.
ReadDirFail ==
    /\ pc = "walk"
    /\ cur # <<pathSeparator>>
    /\ children[cur] = "unreadable"
    /\ pc' = "failed"
    /\ UNCHANGED <<gitVars, prettifyVars, compressVars>>

\* Lines 43-50: a child directory named .git is found and its path returned.
FoundGit ==
    /\ pc = "walk"
    /\ cur # <<pathSeparator>>
    /\ children[cur] = "dir"
    /\ gitDir' = Join(<<cur, gitDirectoryName>>)
    /\ pc' = "found"
    /\ UNCHANGED <<cwd, cur, children, prettifyVars, compressVars>>

\* Line 53: no child directory named .git; on to the parent.
MoveUp ==
    /\ pc = "walk"
    /\ cur # <<pathSeparator>>
    /\ children[cur] \in {"none", "file"}
    /\ cur' = Dir(cur)
    /\ UNCHANGED <<pc, cwd, children, gitDir, prettifyVars, compressVars>>

\* Lines 35 and 58: cur is the root; the loop ends and the error is returned.
NotFound ==
    /\ pc = "walk"
    /\ cur = <<pathSeparator>>
    /\ pc' = "notfound"
    /\ UNCHANGED <<gitVars, prettifyVars, compressVars>>

NextGit ==
    \/ Getwd
    \/ GetwdFail
    \/ ReadDirFail
    \/ FoundGit
    \/ MoveUp
    \/ NotFound

SpecGit == InitGit /\ [][NextGit]_vars

---------------------------------------------------------------------------
(* Properties *)

\* The number of occurrences of rune r in s.
Count(r, s) == Cardinality({k \in 1..Len(s) : s[k] = r})

Returned == pc = "done"
FellBack == pc = "done" /\ neededGain > 0
Rejoined == pc = "done" /\ ~(neededGain > 0)
Passes == {"longest", "three", "two", "finish", "done"}

\* The 1-based indices of the truncatable range [segmentsStartI, segmentsEndI).
Truncatable == 1..(Len(segments) - 1)

\* C1: for every path, HOME and targetLength >= 2, the returned string has at
\* most targetLength runes, multi-byte runes in the path included.
C1_LengthBound ==
    (Returned /\ targetLength >= 2) => Len(p) <= targetLength

\* C2: a path whose home-substituted form already fits the target is returned
\* exactly as that form, the leading root separator included.
C2_NoOpOnShortPaths ==
    (Returned /\ Len(origP) <= targetLength) => p = origP

\* No segment is modified, the global fallback is not taken and the output has
\* no truncator that was not in the input.
NoTruncation ==
    /\ segments = Split(origP)
    /\ ~(neededGain > 0)
    /\ Count(segmentTruncator, p) <= Count(segmentTruncator, arg)

\* C3 as stated: targetLength = 0, and a targetLength larger than the rune
\* count of the path, both perform no truncation.
C3_ShortCircuitAsStated ==
    (Returned /\ (targetLength = 0 \/ targetLength > Len(arg))) => NoTruncation

\* C3, amended: a targetLength of at least the rune count of the normalized,
\* home-substituted path performs no truncation (no segment is modified, the
\* global fallback is not taken, no truncator is added); a targetLength of 0
\* does not short-circuit: the global fallback is taken and the path is cut.
C3_ShortCircuit ==
    /\ (Returned /\ targetLength >= Len(origP)) => NoTruncation
    /\ (Returned /\ targetLength = 0) =>
            /\ FellBack
            /\ p # origP
            /\ Count(segmentTruncator, p) = Count(segmentTruncator, arg) + 1
                 \/ Count(segmentTruncator, arg) > 0

C3_Witness ==
    /\ Returned
    /\ call = 1
    /\ targetLength > Len(origP)
    /\ Len(segments) >= 3
    /\ p # <<>>

\* The names of the normalized path below the names of HOME.
BelowHome ==
    LET homeNames == CleanElems(Split(HOME), TRUE, <<>>)
        pathNames == CleanElems(Split(cleanP), TRUE, <<>>)
    IN  SubSeq(pathNames, Len(homeNames) + 1, Len(pathNames))

\* C4: whenever HOME is non-empty and a string prefix of the normalized path,
\* the first segment of the substituted path is exactly "~" and the remaining
\* segments are the names below the home directory.
C4_HomeSubstitution ==
    (pc \in Passes /\ HOME # <<>> /\ HasPrefix(cleanP, HOME)) =>
        /\ Split(origP)[1] = <<homeTruncator>>
        /\ Tail(Split(origP)) = BelowHome

\* C5: whenever neededGain is still > 0 after the three passes, the result is
\* compressWithTruncator of the saved home-substituted path with the
\* unmodified targetLength: a prefix of that path, one truncator and a suffix
\* of that path, so exactly one truncator when the path had none, and no
\* segment-level edit.
C5_GlobalFallback ==
    FellBack =>
        /\ p = compressWithTruncator(origP, segmentTruncator, targetLength)
        /\ \E k \in 1..Len(p) :
            /\ p[k] = segmentTruncator
            /\ SubSeq(p, 1, k - 1) = SubSeq(origP, 1, k - 1)
            /\ SubSeq(p, k + 1, Len(p)) =
                   SubSeq(origP, Len(origP) - (Len(p) - k) + 1, Len(origP))
        /\ Count(segmentTruncator, origP) = 0 => Count(segmentTruncator, p) = 1

C5_Witness ==
    /\ FellBack
    /\ call = 1
    /\ Count(segmentTruncator, origP) = 0
    /\ \E j \in Truncatable : Count(segmentTruncator, segments[j]) = 1

\* HOME is unset, is not a prefix of the path, or names a directory of the
\* path (the path itself or one of its ancestors).
HomeIsDirectory ==
    \/ HOME = <<>>
    \/ ~HasPrefix(cleanP, HOME)
    \/ /\ Last(HOME) # pathSeparator
       /\ cleanP = HOME \/ cleanP[Len(HOME) + 1] = pathSeparator

\* C6 as stated, in the executions where HOME is a directory: when the global
\* fallback is not taken, the last segment of the output equals the last
\* segment of the normalized input.
C6_BaseNameAsStated ==
    (Rejoined /\ HomeIsDirectory) => Last(Split(p)) = Last(Split(cleanP))

\* C6, amended: no pass selects or modifies the last segment, so when the
\* global fallback is not taken the last segment of the output equals the last
\* segment of the normalized, home-substituted input.
C6_BaseNameProtected ==
    /\ pc \in Passes => Last(segments) = Last(Split(origP))
    /\ Rejoined => Last(Split(p)) = Last(Split(origP))

\* The base name is longer than every other segment, and a pass has edited
\* another segment.
C6_Witness ==
    /\ Rejoined
    /\ call = 1
    /\ segments # Split(origP)
    /\ \A j \in Truncatable : Len(Split(origP)[j]) < Len(Last(segments))

\* C7: once the two-character pass can collapse or has collapsed a segment,
\* every truncatable segment that had 3 runes when the three-character pass
\* began is already its first rune plus the truncator (or, where the
\* two-character pass has passed, that first rune alone); and a truncatable
\* segment of 2 runes whose last rune is not the truncator is never changed.
C7_CompactionOrder ==
    /\ (pc \in {"two", "finish", "done"} /\ (collapsed \/ (pc = "two" /\ neededGain > 0))) =>
            \A j \in Truncatable :
                Len(atThree[j]) = 3 =>
                    \/ segments[j] = <<atThree[j][1], segmentTruncator>>
                    \/ /\ collapsed
                       /\ pc = "two" => j - 1 < i
                       /\ segments[j] = <<atThree[j][1]>>
    /\ pc \in Passes =>
            \A j \in Truncatable :
                LET s0 == Split(origP)[j]
                IN  (Len(s0) = 2 /\ s0[2] # segmentTruncator) => segments[j] = s0

C7_Witness ==
    /\ collapsed
    /\ call = 1
    /\ \E j \in Truncatable : atThree[j] = <<"c", "c", "c">> /\ Len(segments[j]) = 1
    /\ \E j \in Truncatable : segments[j] = <<"b", "b">>

\* C8: the second call, on the first call's output, returns that output.
C8_RoundTrip ==
    (Returned /\ call = 2) => p = arg

\* C9: when the longest-first pass ends, either neededGain <= 0 or every
\* truncatable segment has at most 3 runes.
C9_LongestPassDrains ==
    (pc = "three" /\ i = segmentsStartI) =>
        \/ neededGain <= 0
        \/ \A j \in Truncatable : Len(segments[j]) <= 3

\* The 0-based index of the first truncatable segment of greatest rune count.
scalarLongest(segs) ==
    CHOOSE j \in 0..(Len(segs) - 2) :
        /\ \A m \in 0..(Len(segs) - 2) : Len(segs[m + 1]) <= Len(segs[j + 1])
        /\ \A m \in 0..(j - 1) : Len(segs[m + 1]) < Len(segs[j + 1])

\* C10: every iteration of the longest-first pass chooses the truncatable
\* segment of greatest rune count, the first such segment winning ties.
C10_LongestFirstSelection ==
    [][(pc = "longest" /\ pc' = "longest" /\ i' = i + 1) =>
            longestI' = scalarLongest(segments)]_vars

---------------------------------------------------------------------------
(* Properties of compressWithTruncator *)

Compressed == pc = "compressed"

\* Every rune of str is one byte long.
SingleByte(str) == ByteLen(str) = Len(str)

\* start and end as the claim computes them, for a string of lenS runes:
\* reduction = lenS - maxLen, start = floor(lenS/2 - reduction/2),
\* end = start + reduction, clamped to [0, lenS].
cutStart(lenS, maxL) ==
    LET start == (lenS - (lenS - maxL)) \div 2
    IN  IF start < 0 THEN 0 ELSE start

cutEnd(lenS, maxL) ==
    LET end == cutStart(lenS, maxL) + (lenS - maxL)
    IN  IF end > lenS THEN lenS ELSE end

---------------------------------------------------------------------------
(* Properties of the needed gain *)

\* C12: throughout the three segment passes neededGain equals the rune count
\* of the segments joined by separators minus targetLength: every truncation
\* shrinks its segment by exactly the amount neededGain is decremented by, for
\* segments of any characters.
C12_GainAccounting ==
    pc \in {"longest", "three", "two", "finish"} =>
        neededGain = Len(StringsJoin(segments)) - targetLength

---------------------------------------------------------------------------
(* Properties of gitPath *)

\* The directories on the chain from dir up to and including the root.
RECURSIVE Chain(_)
Chain(dir) ==
    IF dir = <<pathSeparator>> THEN {dir} ELSE {dir} \cup Chain(Dir(dir))

\* The directories of the chain from the start that hold a directory named
\* .git.
Repositories == {dir \in Chain(cwd) : children[dir] = "dir"}

\* The path of the .git directory of dir.
gitDirOf(dir) ==
    IF dir = <<pathSeparator>> THEN dir \o gitDirectoryName
    ELSE dir \o <<pathSeparator>> \o gitDirectoryName

\* C13: gitPath returns the path of the .git directory of the nearest directory
\* on the chain from the start directory up to and including the root that
\* holds a directory named .git, and returns the not-found error only when no
\* directory on that chain, the root included, holds one.
C13_RepositoryDiscovery ==
    /\ pc = "found" =>
            \E dir \in Repositories :
                /\ gitDir = gitDirOf(dir)
                /\ \A other \in Repositories : Len(other) <= Len(dir)
    /\ pc = "notfound" => Repositories = {}

====
